---------------------------- MODULE Spec2Model ----------------------------
(***************************************************************************)
(* Companydle: a static daily guessing game.  The page script computes the *)
(* day's answer from the New York calendar date with a seeded shuffle,     *)
(* keeps the session {date, guesses, solved} in localStorage, judges each  *)
(* guess against the answer and renders a row of feedback cells, and       *)
(* builds a share text from the stored session.                            *)
(*                                                                         *)
(* Conventions of the model                                                *)
(*  - a JavaScript string is a sequence of one-character strings;          *)
(*  - a 32-bit word is a pair <<hi, lo>> of 16-bit halves (TLC integers    *)
(*    are 32-bit signed, so a word does not fit one integer);              *)
(*  - an object reference into `companies` is its 1-based position, and    *)
(*    0 is null;                                                           *)
(*  - a date string "YYYY-MM-DD" is the triple <<y, m, d>> of its fields;  *)
(*  - a numeric attribute is [k |-> "null" | "nan" | "num", v |-> Int].    *)
(***************************************************************************)
EXTENDS Integers, Sequences, FiniteSets, TLC

(***************************************************************************)
(* Characters and strings                                                  *)
(***************************************************************************)
LowerLetters ==
  <<"a","b","c","d","e","f","g","h","i","j","k","l","m",
    "n","o","p","q","r","s","t","u","v","w","x","y","z">>

UpperLetters ==
  <<"A","B","C","D","E","F","G","H","I","J","K","L","M",
    "N","O","P","Q","R","S","T","U","V","W","X","Y","Z">>

Digits == <<"0","1","2","3","4","5","6","7","8","9">>

Range(s) == { s[i] : i \in 1..Len(s) }

IndexIn(s, c) == CHOOSE i \in 1..Len(s) : s[i] = c

\* String.prototype.toLowerCase / toUpperCase on one character
LowerChar(c) ==
  IF c \in Range(UpperLetters) THEN LowerLetters[IndexIn(UpperLetters, c)] ELSE c

UpperChar(c) ==
  IF c \in Range(LowerLetters) THEN UpperLetters[IndexIn(LowerLetters, c)] ELSE c

toLowerCase(s) == [i \in 1..Len(s) |-> LowerChar(s[i])]

toUpperCase(s) == [i \in 1..Len(s) |-> UpperChar(s[i])]

\* The characters String.prototype.trim removes (the model's inputs use the blank)
Whitespace == {" "}

RECURSIVE trimStart(_)
trimStart(s) ==
  IF s # <<>> /\ Head(s) \in Whitespace THEN trimStart(Tail(s)) ELSE s

RECURSIVE trimEnd(_)
trimEnd(s) ==
  IF s # <<>> /\ s[Len(s)] \in Whitespace
  THEN trimEnd(SubSeq(s, 1, Len(s) - 1))
  ELSE s

trim(s) == trimEnd(trimStart(s))

\* s.startsWith(q)
startsWith(s, q) == Len(q) <= Len(s) /\ SubSeq(s, 1, Len(q)) = q

\* s.includes(q)
includes(s, q) ==
  \E k \in 0..(Len(s) - Len(q)) : SubSeq(s, k + 1, k + Len(q)) = q

\* .replace(/&/g, " and ")
RECURSIVE replaceAmp(_)
replaceAmp(s) ==
  IF s = <<>> THEN <<>>
  ELSE IF Head(s) = "&" THEN <<" ","a","n","d"," ">> \o replaceAmp(Tail(s))
  ELSE <<Head(s)>> \o replaceAmp(Tail(s))

IsAlnum(c) == c \in Range(LowerLetters) \/ c \in Range(Digits)

\* .replace(/[^a-z0-9]+/g, " "): every maximal run of other characters
\* becomes one blank
RECURSIVE collapseNonAlnum(_)
collapseNonAlnum(s) ==
  IF s = <<>> THEN <<>>
  ELSE IF IsAlnum(Head(s)) THEN <<Head(s)>> \o collapseNonAlnum(Tail(s))
  ELSE IF Len(s) >= 2 /\ ~IsAlnum(s[2]) THEN collapseNonAlnum(Tail(s))
  ELSE <<" ">> \o collapseNonAlnum(Tail(s))

\* normalize(s); (s || "") is the caller's: a missing string is passed as <<>>
normalize(s) == trim(collapseNonAlnum(replaceAmp(toLowerCase(s))))

(***************************************************************************)
(* 32-bit words, as pairs <<hi, lo>> of 16-bit halves                      *)
(***************************************************************************)
TwoTo16 == 2 ^ 16

Bit(n, i) == (n \div (2 ^ i)) % 2

XorBit(a, b, i) == ((Bit(a, i) + Bit(b, i)) % 2) * (2 ^ i)

OrBit(a, b, i) == IF Bit(a, i) + Bit(b, i) > 0 THEN 2 ^ i ELSE 0

Xor16(a, b) ==
    XorBit(a, b, 0)  + XorBit(a, b, 1)  + XorBit(a, b, 2)  + XorBit(a, b, 3)
  + XorBit(a, b, 4)  + XorBit(a, b, 5)  + XorBit(a, b, 6)  + XorBit(a, b, 7)
  + XorBit(a, b, 8)  + XorBit(a, b, 9)  + XorBit(a, b, 10) + XorBit(a, b, 11)
  + XorBit(a, b, 12) + XorBit(a, b, 13) + XorBit(a, b, 14) + XorBit(a, b, 15)

Or16(a, b) ==
    OrBit(a, b, 0)  + OrBit(a, b, 1)  + OrBit(a, b, 2)  + OrBit(a, b, 3)
  + OrBit(a, b, 4)  + OrBit(a, b, 5)  + OrBit(a, b, 6)  + OrBit(a, b, 7)
  + OrBit(a, b, 8)  + OrBit(a, b, 9)  + OrBit(a, b, 10) + OrBit(a, b, 11)
  + OrBit(a, b, 12) + OrBit(a, b, 13) + OrBit(a, b, 14) + OrBit(a, b, 15)

\* x ^ y
xor(x, y) == <<Xor16(x[1], y[1]), Xor16(x[2], y[2])>>

\* x | y
or(x, y) == <<Or16(x[1], y[1]), Or16(x[2], y[2])>>

\* x >>> k, 0 < k < 32
shr(x, k) ==
  IF k >= 16
  THEN <<0, x[1] \div (2 ^ (k - 16))>>
  ELSE <<x[1] \div (2 ^ k),
         (x[1] % (2 ^ k)) * (2 ^ (16 - k)) + (x[2] \div (2 ^ k))>>

\* (x + y) modulo 2^32
add(x, y) ==
  LET lo == x[2] + y[2]
  IN  <<(x[1] + y[1] + (lo \div TwoTo16)) % TwoTo16, lo % TwoTo16>>

\* Math.imul(x, y): the low 32 bits of the product, by bytes
imul(x, y) ==
  LET a0 == x[2] % 256  a1 == x[2] \div 256
      a2 == x[1] % 256  a3 == x[1] \div 256
      b0 == y[2] % 256  b1 == y[2] \div 256
      b2 == y[1] % 256  b3 == y[1] \div 256
      k0 == a0 * b0
      k1 == (k0 \div 256) + a0 * b1 + a1 * b0
      k2 == (k1 \div 256) + a0 * b2 + a1 * b1 + a2 * b0
      k3 == (k2 \div 256) + a0 * b3 + a1 * b2 + a2 * b1 + a3 * b0
  IN  <<(k3 % 256) * 256 + (k2 % 256), (k1 % 256) * 256 + (k0 % 256)>>

\* String.prototype.charCodeAt for the characters of the salt
charCode(c) ==
  IF c \in Range(LowerLetters) THEN 96 + IndexIn(LowerLetters, c)
  ELSE IF c \in Range(UpperLetters) THEN 64 + IndexIn(UpperLetters, c)
  ELSE IF c \in Range(Digits) THEN 47 + IndexIn(Digits, c)
  ELSE IF c = "-" THEN 45
  ELSE IF c = " " THEN 32
  ELSE 63

ANSWER_SALT == <<"c","o","m","p","a","n","y","d","l","e","-","v","1">>

(***************************************************************************)
(* F(v), with v evaluated before F is entered: it keeps the evaluation of  *)
(* the loops below flat                                                    *)
(***************************************************************************)
Strict(F(_), v) == CHOOSE r \in { F(p) : p \in {v} } : TRUE

(***************************************************************************)
(* cyrb53(str, seed = 0): the pair <<h2 & 2097151, h1>> whose value is     *)
(* 4294967296 * (2097151 & h2) + (h1 >>> 0)                                *)
(***************************************************************************)
\* one round of the loop: h = <<h1, h2>>, ch = str.charCodeAt(i)
cyrb53Step(h, ch) ==
  <<imul(xor(h[1], <<0, ch>>), <<40503, 31153>>),    \* 2654435761
    imul(xor(h[2], <<0, ch>>), <<24373, 25749>>)>>   \* 1597334677

\* <<h1, h2>> after the first i characters
RECURSIVE cyrb53Loop(_, _)
cyrb53Loop(str, i) ==
  IF i = 0 THEN << <<57005, 48879>>, <<16838, 52823>> >>   \* 0xdeadbeef, 0x41c6ce57
  ELSE Strict(LAMBDA h : cyrb53Step(h, charCode(str[i])), cyrb53Loop(str, i - 1))

cyrb53Final(h) ==
  LET h1  == h[1]
      h2  == h[2]
      h1n == Strict(LAMBDA p : p,
                    xor(imul(xor(h1, shr(h1, 16)), <<34283, 51819>>),    \* 2246822507
                        imul(xor(h2, shr(h2, 13)), <<49842, 44597>>)))   \* 3266489909
      h2n == xor(imul(xor(h2, shr(h2, 16)), <<34283, 51819>>),
                 imul(xor(h1n, shr(h1n, 13)), <<49842, 44597>>))
  IN  << <<h2n[1] % 32, h2n[2]>>, h1n >>

cyrb53(str) == Strict(cyrb53Final, cyrb53Loop(str, Len(str)))

(***************************************************************************)
(* mulberry32(seed): the word returned by the k-th call of the generator   *)
(* (k >= 1); rand() is that word divided by 4294967296                     *)
(***************************************************************************)
\* t after k calls: t += 0x6D2B79F5 each call (only t modulo 2^32 is read)
RECURSIVE mulberryT(_, _)
mulberryT(seed, k) ==
  IF k = 0 THEN seed
  ELSE Strict(LAMBDA t : add(t, <<27947, 31221>>), mulberryT(seed, k - 1))

mulberryMix1(t) == imul(xor(t, shr(t, 15)), or(t, <<0, 1>>))

mulberryMix2(x) == xor(x, add(x, imul(xor(x, shr(x, 7)), or(x, <<0, 61>>))))

mulberryOut(x) == xor(x, shr(x, 14))

mulberry32(seed, k) ==
  Strict(mulberryOut,
         Strict(mulberryMix2,
                Strict(mulberryMix1, mulberryT(seed, k))))

\* Math.floor(rand() * m) for the word u = rand() * 2^32 and a small m
floorRandTimes(u, m) == (u[1] * m + ((u[2] * m) \div TwoTo16)) \div TwoTo16

(***************************************************************************)
(* seededShuffle(arr, seedStr): Fisher-Yates driven by mulberry32          *)
(***************************************************************************)
\* a[i] = a[j] alone: the old a[i] is lost
swapLost(a, i, j) == [a EXCEPT ![i] = a[j]]

\* [a[i], a[j]] = [a[j], a[i]] at 1-based positions
swap(a, i, j) == [a EXCEPT ![i] = a[j], ![j] = a[i]]

\* the k-th round of the loop: i = a.length - k, j = Math.floor(rand() * (i + 1))
shuffleStep(a, seed, k) ==
  LET i == Len(a) - k
      j == floorRandTimes(mulberry32(seed, k), i + 1)
  IN  swap(a, i + 1, j + 1)

\* the array after k rounds (the loop runs for i = length - 1 down to 1)
RECURSIVE shuffleLoop(_, _, _)
shuffleLoop(arr, seed, k) ==
  IF k = 0 THEN arr
  ELSE Strict(LAMBDA a : shuffleStep(a, seed, k), shuffleLoop(arr, seed, k - 1))

\* const seed = cyrb53(seedStr) >>> 0: the low word of the hash
seededShuffle(arr, seedStr) ==
  IF Len(arr) <= 1 THEN arr
  ELSE Strict(LAMBDA seed : shuffleLoop(arr, seed, Len(arr) - 1), cyrb53(seedStr)[2])

(***************************************************************************)
(* Dates and getUTCDayNumber                                               *)
(***************************************************************************)
InLeapYear(y) == (y % 4 = 0 /\ y % 100 # 0) \/ y % 400 = 0

DaysInMonth(y, m) ==
  IF m = 2 THEN (IF InLeapYear(y) THEN 29 ELSE 28)
  ELSE IF m \in {4, 6, 9, 11} THEN 30 ELSE 31

\* ECMAScript DayFromYear
DayFromYear(y) ==
  365 * (y - 1970) + ((y - 1969) \div 4) - ((y - 1901) \div 100) + ((y - 1601) \div 400)

RECURSIVE DaysBeforeMonth(_, _)
DaysBeforeMonth(y, m) ==
  IF m <= 1 THEN 0 ELSE DaysInMonth(y, m - 1) + DaysBeforeMonth(y, m - 1)

\* Math.floor(Date.UTC(y, m - 1, d) / 86400000) for dateStr = "y-m-d"
getUTCDayNumber(dateStr) ==
  LET y == dateStr[1]
      m == dateStr[2]
      d == dateStr[3]
  IN  DayFromYear(y) + DaysBeforeMonth(y, m) + (d - 1)

\* the calendar date after dateStr (the New York date at the next midnight)
NextDate(dateStr) ==
  LET y == dateStr[1]
      m == dateStr[2]
      d == dateStr[3]
  IN  IF d < DaysInMonth(y, m) THEN <<y, m, d + 1>>
      ELSE IF m < 12 THEN <<y, m + 1, 1>>
      ELSE <<y + 1, 1, 1>>

\* JavaScript's %: the remainder has the sign of the dividend
JsRem(a, n) == IF a >= 0 THEN a % n ELSE -((-a) % n)

\* day % schedule.length alone, negative for the days before the epoch
scheduleIndexNoWrap(day, n) == JsRem(day, n)

\* const idx = ((day % schedule.length) + schedule.length) % schedule.length
scheduleIndex(day, n) == JsRem(JsRem(day, n) + n, n)

(***************************************************************************)
(* Attribute values.  A number is [k |-> "num", v |-> n]; null, NaN and    *)
(* Infinity are the other kinds.  An absent string is NullStr.             *)
(***************************************************************************)
Null == [k |-> "null", v |-> 0]

NaN == [k |-> "nan", v |-> 0]

Infinity == [k |-> "inf", v |-> 0]

Num(n) == [k |-> "num", v |-> n]

NullStr == <<"null">>

\* (s || ""): null and the empty string are both falsy
orEmpty(s) == IF s = NullStr THEN <<>> ELSE s

\* a < b on numbers (neither is null): false as soon as either is NaN
Lt(a, b) ==
  IF a.k = "nan" \/ b.k = "nan" THEN FALSE
  ELSE IF a.k = "inf" THEN FALSE
  ELSE IF b.k = "inf" THEN TRUE
  ELSE a.v < b.v

\* a === b on numbers or null: NaN is not equal to itself
StrictEq(a, b) == a.k # "nan" /\ b.k # "nan" /\ a = b

MAX_GUESSES == 8

(***************************************************************************)
(* BUCKETS.  marketCap is counted in millions of dollars (10e9 is 10000),  *)
(* the other attributes in their own unit.                                 *)
(***************************************************************************)
BUCKETS ==
  [founded   |-> << [label |-> "<1900",       upper |-> Num(1900)],
                    [label |-> "1900-1949",   upper |-> Num(1950)],
                    [label |-> "1950-1969",   upper |-> Num(1970)],
                    [label |-> "1970-1989",   upper |-> Num(1990)],
                    [label |-> "1990-2009",   upper |-> Num(2010)],
                    [label |-> "2010+",       upper |-> Infinity] >>,
   price     |-> << [label |-> "<$25",        upper |-> Num(25)],
                    [label |-> "$25-$50",     upper |-> Num(50)],
                    [label |-> "$50-$100",    upper |-> Num(100)],
                    [label |-> "$100-$200",   upper |-> Num(200)],
                    [label |-> "$200-$500",   upper |-> Num(500)],
                    [label |-> "$500+",       upper |-> Infinity] >>,
   marketCap |-> << [label |-> "<$10B",       upper |-> Num(10000)],
                    [label |-> "$10B-$50B",   upper |-> Num(50000)],
                    [label |-> "$50B-$200B",  upper |-> Num(200000)],
                    [label |-> "$200B-$500B", upper |-> Num(500000)],
                    [label |-> "$500B-$1T",   upper |-> Num(1000000)],
                    [label |-> "$1T+",        upper |-> Infinity] >>,
   employees |-> << [label |-> "<10K",        upper |-> Num(10000)],
                    [label |-> "10K-50K",     upper |-> Num(50000)],
                    [label |-> "50K-100K",    upper |-> Num(100000)],
                    [label |-> "100K-200K",   upper |-> Num(200000)],
                    [label |-> "200K-500K",   upper |-> Num(500000)],
                    [label |-> "500K+",       upper |-> Infinity] >>,
   pe        |-> << [label |-> "<10",         upper |-> Num(10)],
                    [label |-> "10-20",       upper |-> Num(20)],
                    [label |-> "20-30",       upper |-> Num(30)],
                    [label |-> "30-50",       upper |-> Num(50)],
                    [label |-> "50-100",      upper |-> Num(100)],
                    [label |-> "100+",        upper |-> Infinity] >>]

\* a bucketUpper that tests value <= upper: a value on a bound stays below it
bucketUpperInclusive(value, bucketDefs) ==
  IF value.k = "null" \/ value.k = "nan"
  THEN [label |-> "N/A", index |-> -1]
  ELSE IF \E i \in 1..Len(bucketDefs) : Lt(value, bucketDefs[i].upper) \/ value = bucketDefs[i].upper
       THEN LET i == CHOOSE i \in 1..Len(bucketDefs) :
                       /\ Lt(value, bucketDefs[i].upper) \/ value = bucketDefs[i].upper
                       /\ \A h \in 1..(i - 1) :
                            ~(Lt(value, bucketDefs[h].upper) \/ value = bucketDefs[h].upper)
            IN  [label |-> bucketDefs[i].label, index |-> i - 1]
       ELSE [label |-> bucketDefs[Len(bucketDefs)].label,
             index |-> Len(bucketDefs) - 1]

\* bucketUpper(value, bucketDefs): {label, index}, index 0-based, -1 for N/A
bucketUpper(value, bucketDefs) ==
  IF value.k = "null" \/ value.k = "nan"
  THEN [label |-> "N/A", index |-> -1]
  ELSE IF \E i \in 1..Len(bucketDefs) : Lt(value, bucketDefs[i].upper)
       THEN LET i == CHOOSE i \in 1..Len(bucketDefs) :
                       /\ Lt(value, bucketDefs[i].upper)
                       /\ \A h \in 1..(i - 1) : ~Lt(value, bucketDefs[h].upper)
            IN  [label |-> bucketDefs[i].label, index |-> i - 1]
       ELSE [label |-> bucketDefs[Len(bucketDefs)].label,
             index |-> Len(bucketDefs) - 1]

\* arrowFor(guessVal, answerVal): "" | "up" (the answer is higher) | "down"
arrowFor(guessVal, answerVal) ==
  IF guessVal.k = "null" \/ answerVal.k = "null" THEN ""
  ELSE IF StrictEq(guessVal, answerVal) THEN ""
  ELSE IF Lt(guessVal, answerVal) THEN "up" ELSE "down"

(***************************************************************************)
(* Rendering: a cell is [text, ok, arrow], a row is its 8 cells            *)
(***************************************************************************)
makeCell(text, isOk) == [text |-> text, ok |-> isOk, arrow |-> ""]

\* the arrow span is appended only if (!isOk && arrow)
makeNumericCell(bucketLabel, isOk, arrow) ==
  [text |-> bucketLabel, ok |-> isOk, arrow |-> IF ~isOk THEN arrow ELSE ""]

\* (x || "N/A") for the text of a categorical cell
orNA(s) == IF orEmpty(s) = <<>> THEN <<"N","/","A">> ELSE s

\* a cell that takes two N/A for a match, as the cell of pe does
naMatchCell(gv, av, defs) ==
  LET g  == bucketUpper(gv, defs)
      a  == bucketUpper(av, defs)
      ok == (g.index = -1 /\ a.index = -1) \/ (g.index = a.index /\ g.index # -1)
  IN  makeNumericCell(g.label, ok, arrowFor(gv, av))

\* the cell of founded, price, marketCap and employees
plainNumericCell(gv, av, defs) ==
  LET g == bucketUpper(gv, defs)
      a == bucketUpper(av, defs)
  IN  makeNumericCell(g.label, g.index = a.index /\ g.index # -1, arrowFor(gv, av))

\* the cell of pe ("treat N/A specially")
peCell(gv, av) ==
  LET g  == bucketUpper(gv, BUCKETS.pe)
      a  == bucketUpper(av, BUCKETS.pe)
      ok == (g.index = -1 /\ a.index = -1) \/ (g.index = a.index /\ g.index # -1)
  IN  makeNumericCell(g.label, ok, arrowFor(gv, av))

\* renderGuessRow(guessCompany) against the page's answer: the row prepended
\* to rowsEl
renderGuessRow(guessCompany, answerCompany) ==
  << makeCell(guessCompany.ticker, guessCompany.ticker = answerCompany.ticker),
     makeCell(orNA(guessCompany.sector),
              orEmpty(guessCompany.sector) = orEmpty(answerCompany.sector)),
     makeCell(orNA(guessCompany.hq),
              orEmpty(guessCompany.hq) = orEmpty(answerCompany.hq)),
     plainNumericCell(guessCompany.founded, answerCompany.founded, BUCKETS.founded),
     plainNumericCell(guessCompany.price, answerCompany.price, BUCKETS.price),
     plainNumericCell(guessCompany.marketCap, answerCompany.marketCap, BUCKETS.marketCap),
     plainNumericCell(guessCompany.employees, answerCompany.employees, BUCKETS.employees),
     peCell(guessCompany.pe, answerCompany.pe) >>

\* the tile makeShareText pushes for founded, price, marketCap and employees
plainNumericTile(gv, av, defs) ==
  bucketUpper(gv, defs).index = bucketUpper(av, defs).index

peTile(gv, av) ==
  LET gi == bucketUpper(gv, BUCKETS.pe).index
      ai == bucketUpper(av, BUCKETS.pe).index
  IN  (gi = -1 /\ ai = -1) \/ (gi = ai /\ gi # -1)

\* the 7 tiles of one guess in makeShareText: TRUE is a green tile
shareTiles(g, answerCompany) ==
  << orEmpty(g.sector) = orEmpty(answerCompany.sector),
     orEmpty(g.hq) = orEmpty(answerCompany.hq),
     plainNumericTile(g.founded, answerCompany.founded, BUCKETS.founded),
     plainNumericTile(g.price, answerCompany.price, BUCKETS.price),
     plainNumericTile(g.marketCap, answerCompany.marketCap, BUCKETS.marketCap),
     plainNumericTile(g.employees, answerCompany.employees, BUCKETS.employees),
     peTile(g.pe, answerCompany.pe) >>

(***************************************************************************)
(* companies.json and its validation in init                               *)
(*                                                                         *)
(* A raw record carries JSON values: a string field is a string or         *)
(* NullStr (null or missing), a numeric field is a number, Null (null or   *)
(* missing) or Text (a string that is not a number).                       *)
(***************************************************************************)
Text == [k |-> "text", v |-> 0]

Rec(name, ticker, sector, hq, founded, price, marketCap, employees, pe) ==
  [name |-> name, ticker |-> ticker, sector |-> sector, hq |-> hq,
   founded |-> founded, price |-> price, marketCap |-> marketCap,
   employees |-> employees, pe |-> pe]

\* (c.x === null || c.x === undefined) ? null : Number(c.x)
toNumber(raw) ==
  IF raw.k = "null" THEN Null
  ELSE IF raw.k = "text" THEN NaN
  ELSE raw

\* a string is truthy when it is neither missing nor empty
truthy(s) == s # NullStr /\ s # <<>>

\* c.x ? String(c.x).trim() : null
toOptString(raw) == IF truthy(raw) THEN trim(raw) ELSE NullStr

\* .filter(c => c && c.name && c.ticker)
keepRecord(c) == truthy(c.name) /\ truthy(c.ticker)

\* the object .map() builds from one raw record
toCompany(c) ==
  [name      |-> trim(c.name),
   ticker    |-> toUpperCase(trim(c.ticker)),
   sector    |-> toOptString(c.sector),
   hq        |-> toOptString(c.hq),
   founded   |-> toNumber(c.founded),
   price     |-> toNumber(c.price),
   marketCap |-> toNumber(c.marketCap),
   employees |-> toNumber(c.employees),
   pe        |-> toNumber(c.pe)]

RECURSIVE filterMap(_)
filterMap(raw) ==
  IF raw = <<>> THEN <<>>
  ELSE IF keepRecord(Head(raw)) THEN <<toCompany(Head(raw))>> \o filterMap(Tail(raw))
  ELSE filterMap(Tail(raw))

(***************************************************************************)
(* a.localeCompare(b) < 0 for the characters the model's names use: the    *)
(* root collation orders blank < punctuation < digits < letters, compares  *)
(* letters without case first and puts lower case first on a tie           *)
(***************************************************************************)
CollationOrder == <<" ", "-", "!", ".", "&">> \o Digits \o LowerLetters

primaryKey(s) == [i \in 1..Len(s) |-> IndexIn(CollationOrder, LowerChar(s[i]))]

caseKey(s) == [i \in 1..Len(s) |-> IF s[i] \in Range(UpperLetters) THEN 1 ELSE 0]

\* lexicographic order on sequences of numbers
lexLess(a, b) ==
  \E k \in 1..(Len(b)) :
     /\ k <= Len(a) + 1
     /\ \A h \in 1..(k - 1) : a[h] = b[h]
     /\ (k = Len(a) + 1 \/ a[k] < b[k])

localeBefore(a, b) ==
  \/ lexLess(primaryKey(a), primaryKey(b))
  \/ primaryKey(a) = primaryKey(b) /\ lexLess(caseKey(a), caseKey(b))

\* Array.prototype.sort on the strings keys, with localeCompare: where the
\* reference x goes among the references sorted so far (a stable insertion)
insertSorted(sorted, x, keys) ==
  IF \E i \in 1..Len(sorted) : localeBefore(keys[x], keys[sorted[i]])
  THEN LET i == CHOOSE i \in 1..Len(sorted) :
                  /\ localeBefore(keys[x], keys[sorted[i]])
                  /\ \A h \in 1..(i - 1) : ~localeBefore(keys[x], keys[sorted[h]])
       IN  SubSeq(sorted, 1, i - 1) \o <<x>> \o SubSeq(sorted, i, Len(sorted))
  ELSE Append(sorted, x)

\* the references 1..Len(keys) in the order sort leaves their keys in
sort(keys) ==
  LET sorted[n \in 0..Len(keys)] ==
        IF n = 0 THEN <<>> ELSE insertSorted(sorted[n - 1], n, keys)
  IN  sorted[Len(keys)]

\* the mapped records in the order of their names
sortByName(mapped) ==
  LET order == sort([i \in 1..Len(mapped) |-> mapped[i].name])
  IN  [i \in 1..Len(mapped) |-> mapped[order[i]]]

\* companies after init: filtered, mapped, sorted by name
validate(raw) == sortByName(filterMap(raw))

\* answerList = [...companies].sort by ticker, as references into companies
makeAnswerList(cs) == sort([i \in 1..Len(cs) |-> cs[i].ticker])

\* byTicker.get(t) for byTicker = new Map(companies.map(c => [c.ticker, c])):
\* the last company set for the key, or 0 (undefined)
byTickerGet(cs, t) ==
  IF \E i \in 1..Len(cs) : cs[i].ticker = t
  THEN CHOOSE i \in 1..Len(cs) :
         cs[i].ticker = t /\ \A h \in (i + 1)..Len(cs) : cs[h].ticker # t
  ELSE 0

\* byName.get(n) for byName = new Map(companies.map(c => [normalize(c.name), c]))
byNameGet(cs, n) ==
  IF \E i \in 1..Len(cs) : normalize(cs[i].name) = n
  THEN CHOOSE i \in 1..Len(cs) :
         /\ normalize(cs[i].name) = n
         /\ \A h \in (i + 1)..Len(cs) : normalize(cs[h].name) # n
  ELSE 0

(***************************************************************************)
(* getSuggestions(query), as references into companies                     *)
(***************************************************************************)
isPrefixHit(c, q) ==
  startsWith(normalize(c.name), q) \/ startsWith(toLowerCase(c.ticker), q)

isContainsHit(c, q) ==
  /\ ~isPrefixHit(c, q)
  /\ (includes(normalize(c.name), q) \/ includes(toLowerCase(c.ticker), q))

\* prefix: the references i, in order, to the companies that start with q
prefixHits(cs, q) ==
  LET hits[n \in 0..Len(cs)] ==
        IF n = 0 THEN <<>>
        ELSE IF isPrefixHit(cs[n], q) THEN Append(hits[n - 1], n) ELSE hits[n - 1]
  IN  hits[Len(cs)]

\* contains: the same for the companies that only contain q
containsHits(cs, q) ==
  LET hits[n \in 0..Len(cs)] ==
        IF n = 0 THEN <<>>
        ELSE IF isContainsHit(cs[n], q) THEN Append(hits[n - 1], n) ELSE hits[n - 1]
  IN  hits[Len(cs)]

SUGGESTION_LIMIT == 12

\* a getSuggestions without the slice
getSuggestionsUncut(cs, query) ==
  LET q == normalize(query)
  IN  IF q = <<>> THEN <<>> ELSE prefixHits(cs, q) \o containsHits(cs, q)

getSuggestionsIn(cs, query) ==
  LET q == normalize(query)
  IN  IF q = <<>> THEN <<>>
      ELSE LET all == prefixHits(cs, q) \o containsHits(cs, q)
           IN  SubSeq(all, 1, IF Len(all) < SUGGESTION_LIMIT THEN Len(all)
                                 ELSE SUGGESTION_LIMIT)

(***************************************************************************)
(* The files companies.json the model serves                               *)
(***************************************************************************)
\* nine companies and one record without a ticker
RawBig ==
  << Rec(<<"I","a">>, <<"I">>, <<"T">>, <<"C","A">>,
         Num(1976), Num(190), Num(3000000), Num(160000), Num(30)),
     Rec(<<"H","a">>, <<"H">>, <<"T">>, <<"W","A">>,
         Num(1975), Num(400), Num(2900000), Num(220000), Num(35)),
     Rec(<<"G","a">>, <<"g"," ">>, <<"F">>, <<"N","Y">>,
         Num(1799), Num(150), Num(450000), Num(300000), Num(12)),
     Rec(<<"F","a">>, <<"F">>, <<"F">>, <<"N","C">>,
         Null, Num(35), Num(250000), Num(210000), Null),
     Rec(<<"E","a">>, <<"E">>, <<"E">>, <<"T","X">>,
         Num(1870), Num(110), Num(440000), Num(62000), Text),
     Rec(<<"D","a">>, <<"D">>, <<"H">>, <<"N","J">>,
         Num(1886), Num(160), Num(380000), Num(130000), Num(25)),
     Rec(<<"C","a">>, <<"C">>, <<>>, <<"I","L">>,
         Null, Num(50), Num(9000), Num(9000), Null),
     Rec(<<"Z","z">>, NullStr, <<"T">>, <<"C","A">>,
         Num(2000), Num(10), Num(100), Num(100), Num(10)),
     Rec(<<"B","a">>, <<"B">>, NullStr, <<"G","A">>,
         Num(1892), Num(60), Num(260000), Num(79000), Num(24)),
     Rec(<<"A","a">>, <<"A">>, <<"I">>, <<"W","A">>,
         Num(1916), Num(200), Num(120000), Num(170000), Num(100)) >>

\* names and tickers that cross: the name of one is the ticker of another,
\* an ampersand, two names with a common prefix; one record without a name
RawSmall ==
  << Rec(<<"C","a","d">>, <<"C","E">>, <<"T">>, <<"C","A">>,
         Num(1990), Num(25), Num(10000), Num(50000), Num(-3)),
     Rec(<<"B">>, <<"A">>, <<"T">>, NullStr,
         Num(1989), Num(24), Num(9999), Null, Null),
     Rec(NullStr, <<"Q">>, <<"T">>, <<"C","A">>,
         Num(1990), Num(25), Num(10000), Num(50000), Num(5)),
     Rec(<<"C","a","b">>, <<"c","d">>, <<"F">>, <<"C","A">>,
         Null, Text, Num(10000), Null, Null),
     Rec(<<"A","&","B">>, <<"B">>, NullStr, <<"N","Y">>,
         Null, Num(2000), Infinity, Num(49999), Text) >>

\* a name of blanks only, and the same ticker twice
RawOdd ==
  << Rec(<<" "," ">>, <<"z","z">>, <<"T">>, <<"C","A">>,
         Num(1990), Num(25), Num(10000), Num(50000), Num(5)),
     Rec(<<"A","b">>, <<"a"," ">>, <<"F">>, <<"N","Y">>,
         Num(1950), Num(75), Null, Num(100000), Num(20)),
     Rec(<<"B">>, <<"A">>, <<"F">>, <<"N","Y">>,
         Num(1969), Num(99), Null, Num(99999), Num(19)) >>

\* a file whose only record is dropped by the filter
RawNone ==
  << Rec(<<>>, <<"X">>, NullStr, NullStr, Null, Null, Null, Null, Null) >>

\* the number of files made of the first k records of RawBig, k = 1, 2, ...
MaxPrefix == 7

Datasets ==
  <<RawSmall, RawOdd, RawNone, RawBig>> \o [k \in 1..MaxPrefix |-> SubSeq(RawBig, 1, k)]

DsIds == 1..Len(Datasets)

\* per file: companies, answerList and the schedule pickDailyAnswer shuffles
CompaniesOf == [d \in DsIds |-> validate(Datasets[d])]

AnswerListOf == [d \in DsIds |-> makeAnswerList(CompaniesOf[d])]

ScheduleOf == [d \in DsIds |-> seededShuffle(AnswerListOf[d], ANSWER_SALT)]

(***************************************************************************)
(* What the player can type or click                                       *)
(***************************************************************************)
Inputs ==
  { <<>>, <<" ">>, <<"A">>, <<"b">>, <<"C">>, <<"E">>, <<"c","a">>,
    <<"c","a","b">>, <<" ","c","d">>, <<"a","n","d">>, <<"a","&","b">>,
    <<"z","z">>, <<"!">> }

\* the inputs of the runs over several days
DayInputs == { <<>>, <<"A">>, <<"b">>, <<"E">>, <<"c","a","b">>, <<"z","z">> }

\* the same for the long runs, on the file of nine companies
LongInputs ==
  { <<>>, <<"A">>, <<"e">>, <<"F">>, <<"G">>, <<"H">>, <<" ","i","a">>,
    <<"z","z">>, <<"a">> }

(***************************************************************************)
(* State                                                                   *)
(***************************************************************************)
VARIABLES
  ds,          \* the file companies.json the server holds (an index of Datasets)
  today,       \* getTodayNY(): the New York date of the clock
  storage,     \* localStorage[STORAGE_KEY]
  pc,          \* the page: "fetching" (init awaits the file), "ready",
               \* "nodata" (init returned at line 480), "failed" (init rejected)
  pageToday,   \* init's const today
  answer,      \* let answer: a reference into companies, 0 is null
  status,      \* statusEl.textContent, by the message
  locked,      \* guessInput.disabled and guessBtn.disabled
  attempts,    \* the count shown in attemptsEl
  shareHidden, \* shareBtn has the class "hidden"
  rows,        \* rowsEl, the newest row first
  result,      \* the return statement the last submitGuess left by
  shareText,   \* the text the last click on Share produced
  schedDate,   \* scheduler runs: the next date to ask for
  schedPicks,  \* scheduler runs: the answers of the dates asked so far
  cmpGuess,    \* comparator runs: the guessed company
  cmpAnswer,   \* comparator runs: the answer
  cmpRow,      \* comparator runs: the row renderGuessRow made
  cmpTiles,    \* comparator runs: the tiles makeShareText made
  sugFile,     \* suggestion runs: the companies of the page
  sugQuery,    \* suggestion runs: guessInput.value
  sugItems     \* suggestion runs: the list the last input event showed

pageVars == <<pc, pageToday, answer, status, locked, attempts, shareHidden, rows,
              result, shareText>>

gameVars == <<ds, today, storage>>

schedVars == <<schedDate, schedPicks>>

cmpVars == <<cmpGuess, cmpAnswer, cmpRow, cmpTiles>>

sugVars == <<sugFile, sugQuery, sugItems>>

vars == <<gameVars, pageVars, schedVars, cmpVars, sugVars>>

\* let companies, answerList: assigned once by init from the file
loaded == pc \in {"ready", "nodata"}

companies == IF loaded THEN CompaniesOf[ds] ELSE <<>>

answerList == IF loaded THEN AnswerListOf[ds] ELSE <<>>

(***************************************************************************)
(* pickDailyAnswer(dateStr)                                                *)
(***************************************************************************)
\* a pick that is the first entry whatever the list holds
pickFirstEntry(d, dateStr) == 1

pickDailyAnswerOf(d, dateStr) ==
  IF Len(AnswerListOf[d]) = 0 THEN 0
  ELSE LET schedule == ScheduleOf[d]    \* seededShuffle(answerList, ANSWER_SALT)
           day      == getUTCDayNumber(dateStr)
           idx      == scheduleIndex(day, Len(schedule))
       IN  \* schedule[idx] is undefined outside the array
           IF idx + 1 \in 1..Len(schedule) THEN schedule[idx + 1] ELSE 0

pickDailyAnswer(dateStr) == pickDailyAnswerOf(ds, dateStr)

(***************************************************************************)
(* loadState and saveState.  The stored item is                            *)
(*   [kind |-> "none"]     no item (getItem gives null)                    *)
(*   [kind |-> "garbage"]  text JSON.parse throws on                       *)
(*   [kind |-> "falsy"]    JSON of null, 0, false or ""                    *)
(*   [kind |-> "scalar"]   JSON of a number, a string, true or an array:   *)
(*                         its date is undefined                           *)
(*   [kind |-> "json"]     JSON of an object with the fields date, guesses *)
(*                         (an array, or NotArray) and solved (the JSON    *)
(*                         text "true", "false", or another value, truthy  *)
(*                         or falsy)                                       *)
(***************************************************************************)
NotArray == << <<"not an array">> >>

NoItem == [kind |-> "none", date |-> <<>>, guesses |-> <<>>, solved |-> "false"]

freshState(t) == [date |-> t, guesses |-> <<>>, solved |-> FALSE]

\* !!parsed.solved
toBoolean(json) == json \in {"true", "truthy"}

\* a loadState that does not compare parsed.date with today
loadStateAnyDate(item, t) ==
  IF item.kind # "json" THEN freshState(t)
  ELSE [date    |-> item.date,
        guesses |-> IF item.guesses = NotArray THEN <<>> ELSE item.guesses,
        solved  |-> toBoolean(item.solved)]

\* a loadState that gives up the whole record when its guesses are no array
loadStateAllOrNothing(item, t) ==
  IF item.kind # "json" THEN freshState(t)
  ELSE IF item.date # t THEN freshState(t)
  ELSE IF item.guesses = NotArray THEN freshState(t)
  ELSE [date    |-> item.date,
        guesses |-> item.guesses,
        solved  |-> toBoolean(item.solved)]

loadStateFrom(item, t) ==
  IF item.kind # "json" THEN freshState(t)
  ELSE IF item.date # t THEN freshState(t)
  ELSE [date    |-> item.date,
        guesses |-> IF item.guesses = NotArray THEN <<>> ELSE item.guesses,
        solved  |-> toBoolean(item.solved)]

loadState == loadStateFrom(storage, today)

\* a saveState that stringifies state.guesses in place of state: read back,
\* the array has no date, no guesses and no solved field
saveGuessesOnly(state) ==
  [kind |-> "json", date |-> <<>>, guesses |-> NotArray, solved |-> "falsy"]

\* localStorage.setItem(STORAGE_KEY, JSON.stringify(state))
saveState(state) ==
  [kind    |-> "json",
   date    |-> state.date,
   guesses |-> state.guesses,
   solved  |-> IF state.solved THEN "true" ELSE "false"]

(***************************************************************************)
(* submitGuess, lines 386-398: the company the input resolves to, as a     *)
(* reference into cs, 0 when there is none                                 *)
(***************************************************************************)
\* a resolution that asks byName before byTicker
resolveNameFirst(cs, raw) ==
  LET byTick == byTickerGet(cs, toUpperCase(raw))
      byNam  == byNameGet(cs, normalize(raw))
      exact  == IF byNam # 0 THEN byNam ELSE byTick
      sug    == getSuggestionsIn(cs, raw)
  IN  IF exact # 0 THEN exact
      ELSE IF Len(sug) = 1 THEN sug[1]
      ELSE 0

resolveGuess(cs, raw) ==
  LET qNorm    == normalize(raw)
      qTicker  == toUpperCase(raw)
      byTicker == byTickerGet(cs, qTicker)
      byName   == byNameGet(cs, qNorm)
      exact    == IF byTicker # 0 THEN byTicker ELSE byName
      sug      == getSuggestionsIn(cs, raw)
  IN  IF exact # 0 THEN exact
      ELSE IF Len(sug) = 1 THEN sug[1]
      ELSE 0

\* per file and input, computed once
ResolveOf ==
  [d \in DsIds |->
     [i \in Inputs \cup LongInputs |-> resolveGuess(CompaniesOf[d], trim(i))]]

RowOf ==
  [d \in DsIds |->
     [g \in 1..Len(CompaniesOf[d]) |->
        [a \in 1..Len(CompaniesOf[d]) |->
           renderGuessRow(CompaniesOf[d][g], CompaniesOf[d][a])]]]

TilesOf ==
  [d \in DsIds |->
     [g \in 1..Len(CompaniesOf[d]) |->
        [a \in 1..Len(CompaniesOf[d]) |->
           shareTiles(CompaniesOf[d][g], CompaniesOf[d][a])]]]

\* byTicker.get(t) on the page
byTicker(t) == byTickerGet(companies, t)

\* a look at the newest guess only
guessedLast(guesses, t) == guesses # <<>> /\ guesses[Len(guesses)] = t

\* a look at the oldest guess only
guessedFirst(guesses, t) == guesses # <<>> /\ guesses[1] = t

\* state.guesses.includes(t)
guessed(guesses, t) == \E i \in 1..Len(guesses) : guesses[i] = t

\* showShareButtonIfFinished(state): whether the button is hidden afterwards
hiddenAfter(state) == ~(state.solved \/ Len(state.guesses) >= MAX_GUESSES)

\* a session that still takes guesses only below MAX_GUESSES + 1 of them
overMaxGuesses(state) == Len(state.guesses) > MAX_GUESSES

\* state.guesses.length >= MAX_GUESSES, the second check of submitGuess
outOfGuesses(state) == Len(state.guesses) >= MAX_GUESSES

\* an unshift in place of the push: the new ticker goes first
pushGuessFront(state, ticker) ==
  [state EXCEPT !.guesses = <<ticker>> \o @,
                !.solved  = IF ticker = companies[answer].ticker THEN TRUE ELSE @]

\* a push that looks at the budget before it looks at the answer
pushGuessBudgetFirst(state, ticker) ==
  [state EXCEPT !.guesses = Append(@, ticker),
                !.solved  = IF /\ Len(state.guesses) + 1 < MAX_GUESSES
                               /\ ticker = companies[answer].ticker
                            THEN TRUE ELSE @]

\* state.guesses.push(company.ticker), and state.solved = true when the
\* ticker is the answer's
pushGuess(state, ticker) ==
  [state EXCEPT !.guesses = Append(@, ticker),
                !.solved  = IF ticker = companies[answer].ticker THEN TRUE ELSE @]

\* a submitGuess that looks at the input before it looks at the session
submitGuessInputFirst(inputValue) ==
  /\ pc # "fetching"
  /\ LET state == loadState
         raw   == trim(inputValue)
         c     == ResolveOf[ds][inputValue]
     IN  IF answer = 0
         THEN /\ result' = "no_answer"
              /\ UNCHANGED <<storage, status, locked, attempts, shareHidden, rows>>
         ELSE IF raw = <<>>
         THEN /\ status' = "Type a company name or ticker."
              /\ result' = "empty_input"
              /\ UNCHANGED <<storage, locked, attempts, shareHidden, rows>>
         ELSE IF state.solved
         THEN /\ status' = "Already solved."
              /\ locked' = TRUE
              /\ shareHidden' = hiddenAfter(state)
              /\ result' = "invalid_state"
              /\ UNCHANGED <<storage, attempts, rows>>
         ELSE IF outOfGuesses(state)
         THEN /\ status' = "Out of guesses."
              /\ locked' = TRUE
              /\ shareHidden' = hiddenAfter(state)
              /\ result' = "invalid_state"
              /\ UNCHANGED <<storage, attempts, rows>>
         ELSE IF c = 0
         THEN /\ status' = "No match."
              /\ result' = "no_match"
              /\ UNCHANGED <<storage, locked, attempts, shareHidden, rows>>
         ELSE IF guessed(state.guesses, companies[c].ticker)
         THEN /\ status' = "You already guessed that one."
              /\ result' = "duplicate_guess"
              /\ UNCHANGED <<storage, locked, attempts, shareHidden, rows>>
         ELSE LET after  == pushGuess(state, companies[c].ticker)
                  pushed == after.guesses
                  hit    == companies[c].ticker = companies[answer].ticker
              IN  /\ rows' = <<RowOf[ds][c][answer]>> \o rows
                  /\ status' = IF hit THEN "Correct!"
                               ELSE IF Len(pushed) >= MAX_GUESSES THEN "Out of guesses."
                               ELSE "Keep going!"
                  /\ locked' = IF hit \/ Len(pushed) >= MAX_GUESSES THEN TRUE ELSE locked
                  /\ attempts' = Len(pushed)
                  /\ storage' = saveState(after)
                  /\ shareHidden' = hiddenAfter(after)
                  /\ result' = "accepted"
  /\ UNCHANGED <<ds, today, pc, pageToday, answer, shareText, schedVars, cmpVars, sugVars>>

(***************************************************************************)
(* submitGuess(inputValue)                                                 *)
(***************************************************************************)
submitGuess(inputValue) ==
  /\ pc # "fetching"
  /\ LET state == loadState
         raw   == trim(inputValue)
         c     == ResolveOf[ds][inputValue]
     IN  IF answer = 0
         THEN /\ result' = "no_answer"
              /\ UNCHANGED <<storage, status, locked, attempts, shareHidden, rows>>
         ELSE IF state.solved
         THEN /\ status' = "Already solved."
              /\ locked' = TRUE
              /\ shareHidden' = hiddenAfter(state)
              /\ result' = "invalid_state"
              /\ UNCHANGED <<storage, attempts, rows>>
         ELSE IF outOfGuesses(state)
         THEN /\ status' = "Out of guesses."
              /\ locked' = TRUE
              /\ shareHidden' = hiddenAfter(state)
              /\ result' = "invalid_state"
              /\ UNCHANGED <<storage, attempts, rows>>
         ELSE IF raw = <<>>
         THEN /\ status' = "Type a company name or ticker."
              /\ result' = "empty_input"
              /\ UNCHANGED <<storage, locked, attempts, shareHidden, rows>>
         ELSE IF c = 0
         THEN /\ status' = "No match."
              /\ result' = "no_match"
              /\ UNCHANGED <<storage, locked, attempts, shareHidden, rows>>
         ELSE IF guessed(state.guesses, companies[c].ticker)
         THEN /\ status' = "You already guessed that one."
              /\ result' = "duplicate_guess"
              /\ UNCHANGED <<storage, locked, attempts, shareHidden, rows>>
         ELSE LET after  == pushGuess(state, companies[c].ticker)
                  pushed == after.guesses
                  hit    == companies[c].ticker = companies[answer].ticker
              IN  /\ rows' = <<RowOf[ds][c][answer]>> \o rows
                  /\ status' = IF hit THEN "Correct!"
                               ELSE IF Len(pushed) >= MAX_GUESSES THEN "Out of guesses."
                               ELSE "Keep going!"
                  /\ locked' = IF hit \/ Len(pushed) >= MAX_GUESSES THEN TRUE ELSE locked
                  /\ attempts' = Len(pushed)
                  /\ storage' = saveState(after)
                  /\ shareHidden' = hiddenAfter(after)
                  /\ result' = "accepted"
  /\ UNCHANGED <<ds, today, pc, pageToday, answer, shareText, schedVars, cmpVars, sugVars>>

(***************************************************************************)
(* hydrateFromState(state): the rows, newest first                         *)
(***************************************************************************)
RECURSIVE hydrateRows(_, _)
hydrateRows(guesses, ans) ==
  IF guesses = <<>> THEN <<>>
  ELSE LET c    == byTickerGet(CompaniesOf[ds], Head(guesses))
           rest == hydrateRows(Tail(guesses), ans)
       IN  IF c # 0 THEN Append(rest, RowOf[ds][c][ans]) ELSE rest

(***************************************************************************)
(* init, in two steps: up to the fetch, and from the answer of the fetch   *)
(***************************************************************************)
\* the page is opened or reloaded: the script starts, init reads the date
\* and awaits companies.json
initStart ==
  /\ pc' = "fetching"
  /\ pageToday' = today
  /\ answer' = 0
  /\ status' = ""
  /\ locked' = FALSE
  /\ attempts' = 0
  /\ shareHidden' = TRUE
  /\ rows' = <<>>
  /\ result' = ""
  /\ shareText' = <<>>
  /\ UNCHANGED <<gameVars, schedVars, cmpVars, sugVars>>

\* the fetch settles: fetchOk is whether the file arrived and parsed
initFinish(fetchOk) ==
  /\ pc = "fetching"
  /\ IF ~fetchOk
     THEN /\ pc' = "failed"
          /\ status' = "Error loading app.js or companies.json."
          /\ UNCHANGED <<answer, locked, attempts, shareHidden, rows>>
     ELSE LET ans == pickDailyAnswer(pageToday)
          IN  IF ans = 0
              THEN /\ pc' = "nodata"
                   /\ answer' = 0
                   /\ status' = "No data loaded."
                   /\ locked' = TRUE
                   /\ UNCHANGED <<attempts, shareHidden, rows>>
              ELSE LET state == loadState
                   IN  /\ pc' = "ready"
                       /\ answer' = ans
                       /\ rows' = hydrateRows(state.guesses, ans)
                       /\ attempts' = Len(state.guesses)
                       /\ status' = IF state.solved THEN "Solved!"
                                    ELSE IF Len(state.guesses) >= MAX_GUESSES
                                         THEN "Out of guesses."
                                    ELSE "Make your first guess."
                       /\ locked' = (state.solved \/ Len(state.guesses) >= MAX_GUESSES)
                       /\ shareHidden' = hiddenAfter(state)
  /\ UNCHANGED <<gameVars, pageToday, result, shareText, schedVars, cmpVars, sugVars>>

(***************************************************************************)
(* makeShareText(state) and the click on Share                             *)
(***************************************************************************)
\* lines built with unshift: the newest guess first
RECURSIVE shareLinesNewestFirst(_)
shareLinesNewestFirst(guesses) ==
  IF guesses = <<>> THEN <<>>
  ELSE LET g == byTicker(Head(guesses))
       IN  IF g = 0 THEN shareLinesNewestFirst(Tail(guesses))
           ELSE Append(shareLinesNewestFirst(Tail(guesses)), TilesOf[ds][g][answer])

RECURSIVE shareLines(_)
shareLines(guesses) ==
  IF guesses = <<>> THEN <<>>
  ELSE LET g == byTicker(Head(guesses))
       IN  IF g = 0 THEN shareLines(Tail(guesses))
           ELSE <<TilesOf[ds][g][answer]>> \o shareLines(Tail(guesses))

\* the header says "Solved in n/8" or "Unsolved (0/8)"
makeShareText(state) ==
  [date   |-> state.date,
   solved |-> state.solved,
   count  |-> IF state.solved THEN Len(state.guesses) ELSE 0,
   outOf  |-> MAX_GUESSES,
   lines  |-> shareLines(state.guesses)]

shareClick(clipboardOk) ==
  /\ pc = "ready"
  /\ ~shareHidden
  /\ shareText' = <<makeShareText(loadState)>>
  /\ status' = IF clipboardOk THEN "Copied share text to clipboard!" ELSE status
  /\ UNCHANGED <<gameVars, pc, pageToday, answer, locked, attempts, shareHidden,
                 rows, result, schedVars, cmpVars, sugVars>>

(***************************************************************************)
(* Midnight in New York                                                    *)
(***************************************************************************)
StartDate == <<2024, 2, 28>>

MaxTicks == 1

tick ==
  /\ getUTCDayNumber(today) - getUTCDayNumber(StartDate) < MaxTicks
  /\ today' = NextDate(today)
  /\ UNCHANGED <<ds, storage, pageVars, schedVars, cmpVars, sugVars>>

(***************************************************************************)
(* Scheduler runs: pickDailyAnswer asked for consecutive dates             *)
(***************************************************************************)
SchedFirstDate == <<1969, 12, 20>>

\* the number of dates, from SchedFirstDate on, a run may start at
NumStarts == 6

\* the number of consecutive dates asked in one run
SchedDays == 20

RECURSIVE DateAfter(_, _)
DateAfter(dateStr, k) == IF k = 0 THEN dateStr ELSE NextDate(DateAfter(dateStr, k - 1))

schedPick ==
  /\ Len(schedPicks) < SchedDays
  /\ schedPicks' = Append(schedPicks,
                          [day  |-> getUTCDayNumber(schedDate),
                           \* no index is computed for an empty answerList
                           idx  |-> IF Len(ScheduleOf[ds]) = 0 THEN 0
                                    ELSE scheduleIndex(getUTCDayNumber(schedDate),
                                                       Len(ScheduleOf[ds])),
                           pick |-> pickDailyAnswer(schedDate)])
  /\ schedDate' = NextDate(schedDate)
  /\ UNCHANGED <<gameVars, pageVars, cmpVars, sugVars>>

(***************************************************************************)
(* Comparator runs: one guess judged against one answer                    *)
(***************************************************************************)
\* how far around each bucket bound the values of a run are taken
CmpSpread == 1

NumericAttrs == {"founded", "price", "marketCap", "employees", "pe"}

bucketDefsOf(attr) ==
  CASE attr = "founded"   -> BUCKETS.founded
    [] attr = "price"     -> BUCKETS.price
    [] attr = "marketCap" -> BUCKETS.marketCap
    [] attr = "employees" -> BUCKETS.employees
    [] attr = "pe"        -> BUCKETS.pe

NumericValues(attr) ==
  {Null, NaN, Infinity, Num(-5), Num(0)} \cup
  { Num(bucketDefsOf(attr)[i].upper.v + e) :
      i \in 1..(Len(bucketDefsOf(attr)) - 1), e \in (-CmpSpread)..CmpSpread }

StringValues == {NullStr, <<>>, <<"T">>, <<"t">>, <<"F">>}

BaseGuess ==
  Rec(<<"G","u">>, <<"G","U">>, <<"T">>, <<"C","A">>,
      Num(1980), Num(30), Num(20000), Num(20000), Num(15))

BaseAnswer ==
  Rec(<<"A","n">>, <<"A","N">>, <<"F">>, <<"N","Y">>,
      Num(1890), Num(300), Num(300000), Num(300000), Num(40))

withAttr(c, attr, v) ==
  CASE attr = "sector"    -> [c EXCEPT !.sector = v]
    [] attr = "hq"        -> [c EXCEPT !.hq = v]
    [] attr = "founded"   -> [c EXCEPT !.founded = v]
    [] attr = "price"     -> [c EXCEPT !.price = v]
    [] attr = "marketCap" -> [c EXCEPT !.marketCap = v]
    [] attr = "employees" -> [c EXCEPT !.employees = v]
    [] attr = "pe"        -> [c EXCEPT !.pe = v]

cmpRender ==
  /\ cmpRow = <<>>
  /\ cmpRow' = renderGuessRow(cmpGuess, cmpAnswer)
  /\ UNCHANGED <<gameVars, pageVars, schedVars, cmpGuess, cmpAnswer, cmpTiles,
               sugVars>>

cmpShare ==
  /\ cmpTiles = <<>>
  /\ cmpTiles' = shareTiles(cmpGuess, cmpAnswer)
  /\ UNCHANGED <<gameVars, pageVars, schedVars, cmpGuess, cmpAnswer, cmpRow,
               sugVars>>

(***************************************************************************)
(* Specifications                                                          *)
(***************************************************************************)
\* the page just opened: the state initStart leaves
PageOpened ==
  /\ pc = "fetching"
  /\ pageToday = today
  /\ answer = 0
  /\ status = ""
  /\ locked = FALSE
  /\ attempts = 0
  /\ shareHidden = TRUE
  /\ rows = <<>>
  /\ result = ""
  /\ shareText = <<>>

SchedIdle == schedDate = SchedFirstDate /\ schedPicks = <<>>

SugIdle == sugFile = <<>> /\ sugQuery = <<>> /\ sugItems = <<>>

CmpIdle ==
  /\ cmpGuess = BaseGuess
  /\ cmpAnswer = BaseAnswer
  /\ cmpRow = <<>>
  /\ cmpTiles = <<>>

\* the files of the game's runs: RawSmall, RawOdd, RawNone
GameFiles == {1, 2, 3}

\* the file of the long runs: RawBig
LongFile == CHOOSE d \in DsIds : Datasets[d] = RawBig

\* The game, on a small file
Init ==
  /\ ds \in GameFiles
  /\ today = StartDate
  /\ storage = NoItem
  /\ PageOpened
  /\ SchedIdle
  /\ CmpIdle
  /\ SugIdle

\* within one day, every input
Next ==
  \/ initStart
  \/ \E fetchOk \in BOOLEAN : initFinish(fetchOk)
  \/ \E inputValue \in Inputs : submitGuess(inputValue)
  \/ \E clipboardOk \in BOOLEAN : shareClick(clipboardOk)

Spec == Init /\ [][Next]_vars

\* over several days: midnight passes at any moment, also between the load
\* of the page and a guess
NextDays ==
  \/ initStart
  \/ \E fetchOk \in BOOLEAN : initFinish(fetchOk)
  \/ \E inputValue \in DayInputs : submitGuess(inputValue)
  \/ \E clipboardOk \in BOOLEAN : shareClick(clipboardOk)
  \/ tick

SpecDays == Init /\ [][NextDays]_vars

\* the session of a player who made MAX_GUESSES - MaxOpen wrong guesses
\* earlier in the day: the tickers of the first companies that are not the
\* day's answer, in the order of companies
MaxOpen == 3

RECURSIVE wrongTickers(_, _, _)
wrongTickers(cs, ans, n) ==
  IF n = 0 \/ cs = <<>> THEN <<>>
  ELSE IF Head(cs).ticker = ans.ticker THEN wrongTickers(Tail(cs), ans, n)
  ELSE <<Head(cs).ticker>> \o wrongTickers(Tail(cs), ans, n - 1)

playedBefore(d, dateStr) ==
  [date    |-> dateStr,
   guesses |-> wrongTickers(CompaniesOf[d],
                            CompaniesOf[d][pickDailyAnswerOf(d, dateStr)],
                            MAX_GUESSES - MaxOpen),
   solved  |-> FALSE]

\* The game within one day, on the file of nine companies, reopened on a
\* session with MaxOpen guesses left: a session can run out of guesses
InitLong ==
  /\ ds = LongFile
  /\ today = StartDate
  /\ storage = saveState(playedBefore(LongFile, StartDate))
  /\ PageOpened
  /\ SchedIdle
  /\ CmpIdle
  /\ SugIdle

NextLong ==
  \/ initStart
  \/ \E fetchOk \in BOOLEAN : initFinish(fetchOk)
  \/ \E inputValue \in LongInputs : submitGuess(inputValue)
  \/ \E clipboardOk \in BOOLEAN : shareClick(clipboardOk)

SpecLong == InitLong /\ [][NextLong]_vars

\* what another script, the user or a damaged profile can leave under
\* STORAGE_KEY: nothing, text that is no JSON, JSON that is no object, a
\* record of another date, a record of today without a guesses array
StoredDamage ==
  { NoItem,
    [kind |-> "garbage", date |-> <<>>, guesses |-> <<>>, solved |-> "false"],
    [kind |-> "falsy", date |-> <<>>, guesses |-> <<>>, solved |-> "false"],
    [kind |-> "scalar", date |-> <<>>, guesses |-> <<>>, solved |-> "false"],
    [kind |-> "json", date |-> <<2024, 2, 27>>, guesses |-> <<<<"A">>>>,
     solved |-> "true"],
    [kind |-> "json", date |-> <<>>, guesses |-> <<<<"A">>>>, solved |-> "false"],
    [kind |-> "json", date |-> StartDate, guesses |-> NotArray, solved |-> "falsy"],
    [kind |-> "json", date |-> StartDate, guesses |-> NotArray, solved |-> "truthy"] }

\* how many rows the page may have drawn when the store is damaged
MaxDamagedRows == 2

\* the stored item is replaced behind the page's back
damage(item) ==
  /\ Len(rows) < MaxDamagedRows
  /\ storage # item
  /\ storage' = item
  /\ UNCHANGED <<ds, today, pageVars, schedVars, cmpVars, sugVars>>

\* The game within one day on a store that can be damaged at any moment
NextDamaged ==
  \/ initStart
  \/ \E fetchOk \in BOOLEAN : initFinish(fetchOk)
  \/ \E inputValue \in DayInputs : submitGuess(inputValue)
  \/ \E clipboardOk \in BOOLEAN : shareClick(clipboardOk)
  \/ \E item \in StoredDamage : damage(item)

SmallFile == CHOOSE d \in DsIds : Datasets[d] = RawSmall

InitDamaged == Init /\ ds = SmallFile

SpecDamaged == InitDamaged /\ [][NextDamaged]_vars

\* The scheduler alone: every file, runs of consecutive dates around the epoch
InitSched ==
  /\ ds \in DsIds
  /\ today = StartDate
  /\ storage = NoItem
  /\ PageOpened
  /\ \E k \in 0..(NumStarts - 1) : schedDate = DateAfter(SchedFirstDate, k)
  /\ schedPicks = <<>>
  /\ CmpIdle
  /\ SugIdle

NextSched == schedPick

SpecSched == InitSched /\ [][NextSched]_vars

\* The comparator alone: one attribute of the guess and of the answer varies
InitCmp ==
  /\ ds = 1
  /\ today = StartDate
  /\ storage = NoItem
  /\ PageOpened
  /\ SchedIdle
  /\ \/ \E attr \in NumericAttrs : \E gv, av \in NumericValues(attr) :
          /\ cmpGuess = withAttr(BaseGuess, attr, gv)
          /\ cmpAnswer = withAttr(BaseAnswer, attr, av)
     \/ \E attr \in {"sector", "hq"} : \E gv, av \in StringValues :
          /\ cmpGuess = withAttr(BaseGuess, attr, gv)
          /\ cmpAnswer = withAttr(BaseAnswer, attr, av)
  /\ cmpRow = <<>>
  /\ cmpTiles = <<>>
  /\ SugIdle

NextCmp == cmpRender \/ cmpShare

SpecCmp == InitCmp /\ [][NextCmp]_vars

\* The suggestion list alone: files of up to SuggestRecords records, more
\* than the list shows, and the queries typed into the input
SuggestRecords == 14

\* record k of the file: the odd ones are named "Aa", "Ac", ..., the even
\* ones "Ba", "Da", ...; the tickers are "TA", "TB", ...
manyRecord(k) ==
  Rec(IF k % 2 = 1 THEN <<"A", LowerLetters[k]>> ELSE <<UpperLetters[k], "a">>,
      <<"T", UpperLetters[k]>>, NullStr, NullStr, Null, Null, Null, Null, Null)

RawMany(n) == [k \in 1..n |-> manyRecord(k)]

SugQueries ==
  { <<>>, <<" ">>, <<"!">>, <<"a">>, <<" ", "A", " ">>, <<"t">>, <<"T", "b">>,
    <<"a", "c">>, <<"d", "a">>, <<"b">>, <<"e">>, <<"z">> }

\* the input event on guessInput: the list getSuggestions gives for its value
typeQuery(q) ==
  /\ sugQuery' = q
  /\ sugItems' = getSuggestionsIn(sugFile, q)
  /\ UNCHANGED <<gameVars, pageVars, schedVars, cmpVars, sugFile>>

InitSuggest ==
  /\ ds = 1
  /\ today = StartDate
  /\ storage = NoItem
  /\ PageOpened
  /\ SchedIdle
  /\ CmpIdle
  /\ \E n \in 0..SuggestRecords : sugFile = validate(RawMany(n))
  /\ sugQuery = <<>>
  /\ sugItems = <<>>

NextSuggest == \E q \in SugQueries : typeQuery(q)

SpecSuggest == InitSuggest /\ [][NextSuggest]_vars

(***************************************************************************)
(* Properties                                                              *)
(***************************************************************************)
\* the session submitGuess and a reload read: loadState()
active == ~loadState.solved /\ Len(loadState.guesses) < MAX_GUESSES

\* the ticker of a session's newest guess
lastGuess(state) == state.guesses[Len(state.guesses)]

\* per file and input, the companies whose ticker is the upper-cased input,
\* those whose normalized name is the normalized input, and the suggestions
TickerHits ==
  [d \in DsIds |-> [i \in Inputs |->
     { c \in 1..Len(CompaniesOf[d]) : CompaniesOf[d][c].ticker = toUpperCase(trim(i)) }]]

NameHits ==
  [d \in DsIds |-> [i \in Inputs |->
     { c \in 1..Len(CompaniesOf[d]) :
         normalize(CompaniesOf[d][c].name) = normalize(trim(i)) }]]

SuggestionsOf ==
  [d \in DsIds |-> [i \in Inputs |-> getSuggestionsIn(CompaniesOf[d], trim(i))]]

\* C1: on a page that holds an answer, a call of submitGuess with any input
\* on a session that is solved, or unsolved with MAX_GUESSES guesses, leaves
\* by the invalid_state branch, and the session's guesses, its solved flag
\* and the stored record are what they were.
C1_TerminalRejected ==
  [][\A i \in LongInputs :
       ( /\ answer # 0
         /\ loadState.solved \/ Len(loadState.guesses) >= MAX_GUESSES
         /\ submitGuess(i) )
       => ( /\ result' = "invalid_state"
            /\ storage' = storage
            /\ loadState'.guesses = loadState.guesses
            /\ loadState'.solved = loadState.solved )]_vars

\* a rejected submit on a session that ran out of guesses unsolved
C1_Witness ==
  /\ result = "invalid_state"
  /\ ~loadState.solved
  /\ Len(loadState.guesses) = MAX_GUESSES
  /\ status = "Out of guesses."

\* C2: an accepted guess on an active session adds one guess; if its ticker
\* is the answer's the session is solved, whatever the number of guesses
\* (the 8th included); if it is not and the guesses reach MAX_GUESSES the
\* session is unsolved and full; otherwise the session stays active.
C2_Transitions ==
  [][\A i \in LongInputs :
       (answer # 0 /\ active /\ submitGuess(i) /\ result' = "accepted")
       => LET before == loadState
              after  == loadState'
              hit    == lastGuess(after) = companies[answer].ticker
          IN  /\ Len(after.guesses) = Len(before.guesses) + 1
              /\ hit => after.solved
              /\ (~hit /\ Len(after.guesses) = MAX_GUESSES) => ~after.solved
              /\ (~hit /\ Len(after.guesses) < MAX_GUESSES) =>
                    (~after.solved /\ Len(after.guesses) < MAX_GUESSES)
              /\ Len(after.guesses) <= MAX_GUESSES]_vars

\* a session solved by its 8th guess
C2_Witness ==
  /\ result = "accepted"
  /\ loadState.solved
  /\ Len(loadState.guesses) = MAX_GUESSES
  /\ lastGuess(loadState) = companies[answer].ticker

\* C3: on an active session, a submit of non-blank input that resolves to a
\* company whose ticker is in guesses leaves by the duplicate_guess branch:
\* guesses, solved and the stored record are what they were.
C3_DuplicateRejected ==
  [][\A i \in Inputs :
       ( /\ answer # 0
         /\ active
         /\ trim(i) # <<>>
         /\ ResolveOf[ds][i] # 0
         /\ \E k \in 1..Len(loadState.guesses) :
               loadState.guesses[k] = companies[ResolveOf[ds][i]].ticker
         /\ submitGuess(i) )
       => ( /\ result' = "duplicate_guess"
            /\ storage' = storage
            /\ loadState' = loadState )]_vars

\* a guess rejected as a duplicate, on an active session of two guesses or more
C3_Witness ==
  /\ result = "duplicate_guess"
  /\ status = "You already guessed that one."
  /\ Len(loadState.guesses) >= 2
  /\ active

\* C4: for a file with n > 0 companies, the answers of any n consecutive
\* days are all the n companies, each once.
C4_EveryEntityOncePerCycle ==
  LET n == Len(CompaniesOf[ds])
  IN  n > 0 =>
        \A s \in 1..(Len(schedPicks) - n + 1) :
          /\ { schedPicks[s + k].pick : k \in 0..(n - 1) } = 1..n
          /\ \A k \in 0..(n - 1) : schedPicks[s + k].day = schedPicks[s].day + k

\* two full cycles of the nine companies, begun before the epoch
C4_Witness ==
  /\ Len(CompaniesOf[ds]) = 9
  /\ Len(schedPicks) >= 18
  /\ schedPicks[1].day < 0
  /\ schedPicks[1].pick = schedPicks[10].pick

\* C5: for a file with n > 0 companies the schedule index of every day,
\* negative days included, is in 0..n-1, and two days get the same company
\* if and only if they are congruent modulo n.
C5_IndexWrapsAndRepeatsModN ==
  LET n == Len(CompaniesOf[ds])
  IN  n > 0 =>
        \A a, b \in 1..Len(schedPicks) :
          /\ schedPicks[a].idx \in 0..(n - 1)
          /\ schedPicks[a].pick \in 1..n
          /\ (schedPicks[a].pick = schedPicks[b].pick)
               <=> ((schedPicks[a].day - schedPicks[b].day) % n = 0)

\* a day before the epoch and a day after it with the same company, and a
\* negative day that is no multiple of n
C5_Witness ==
  /\ Len(CompaniesOf[ds]) >= 4
  /\ \E a, b \in 1..Len(schedPicks) :
       /\ schedPicks[a].day < 0
       /\ schedPicks[a].day % Len(CompaniesOf[ds]) # 0
       /\ schedPicks[b].day > 0
       /\ schedPicks[a].pick = schedPicks[b].pick

\* the bucket index of a company's attribute, and the row's cell of it
bucketIndex(c, attr) ==
  CASE attr = "founded"   -> bucketUpper(c.founded, BUCKETS.founded).index
    [] attr = "price"     -> bucketUpper(c.price, BUCKETS.price).index
    [] attr = "marketCap" -> bucketUpper(c.marketCap, BUCKETS.marketCap).index
    [] attr = "employees" -> bucketUpper(c.employees, BUCKETS.employees).index
    [] attr = "pe"        -> bucketUpper(c.pe, BUCKETS.pe).index

cellOf(attr) ==
  CASE attr = "sector"    -> 2
    [] attr = "hq"        -> 3
    [] attr = "founded"   -> 4
    [] attr = "price"     -> 5
    [] attr = "marketCap" -> 6
    [] attr = "employees" -> 7
    [] attr = "pe"        -> 8

\* C6, as the spec words it: for every numeric attribute the cell is a match
\* if and only if guess and answer have the same bucket index other than -1,
\* or both have -1.
C6_AsStated ==
  cmpRow # <<>> =>
    \A attr \in NumericAttrs :
      LET g == bucketIndex(cmpGuess, attr)
          a == bucketIndex(cmpAnswer, attr)
      IN  cmpRow[cellOf(attr)].ok <=> ((g = a /\ g # -1) \/ (g = -1 /\ a = -1))

\* C6, amended: for founded, price, market cap and employees the cell is a
\* match if and only if guess and answer have the same bucket index other
\* than -1 (two unknown values are no match); for P/E alone it is a match
\* also when both have -1.
C6_UnknownMatchesForPeOnly ==
  cmpRow # <<>> =>
    \A attr \in NumericAttrs :
      LET g == bucketIndex(cmpGuess, attr)
          a == bucketIndex(cmpAnswer, attr)
      IN  cmpRow[cellOf(attr)].ok <=>
            ((g = a /\ g # -1) \/ (attr = "pe" /\ g = -1 /\ a = -1))

\* a row for a guess and an answer that both have no founding year: no match
C6_Witness ==
  /\ cmpRow # <<>>
  /\ cmpGuess.founded = Null
  /\ cmpAnswer.founded \in {Null, NaN}
  /\ ~cmpRow[cellOf("founded")].ok

\* C7: for each of the 7 compared attributes the tile of makeShareText is
\* green if and only if the cell renderGuessRow made for the same guess and
\* answer is a match, unknown values included.
C7_TilesAreTheCells ==
  (cmpRow # <<>> /\ cmpTiles # <<>>) =>
    \A k \in 1..7 : cmpTiles[k] <=> cmpRow[k + 1].ok

\* a green tile for the founding year of a guess whose cell was no match:
\* guess and answer both have no founding year
C7_Witness ==
  /\ cmpRow # <<>>
  /\ cmpTiles # <<>>
  /\ cmpGuess.founded = Null
  /\ cmpAnswer.founded = Null
  /\ cmpTiles[3]
  /\ ~cmpRow[4].ok

\* C8: when the stored record's date is not today, loadState gives the fresh
\* session {date: today, guesses: [], solved: false}.
C8_StaleRecordDiscarded ==
  (storage.kind = "json" /\ storage.date # today) =>
    /\ loadState = [date |-> today, guesses |-> <<>>, solved |-> FALSE]
    /\ active

\* the record of a session solved on an earlier date
C8_Witness ==
  /\ storage.kind = "json"
  /\ storage.date # today
  /\ storage.guesses # <<>>
  /\ storage.solved = "true"

\* C9: an accepted guess stores the updated session (the session read
\* before the call, with the guess appended and solved set if it is the
\* answer), and loadState on the same day gives back exactly it: the same
\* guesses in the same order and the same solved flag.
C9_AcceptedGuessPersisted ==
  [][\A i \in Inputs :
       (answer # 0 /\ submitGuess(i) /\ result' = "accepted")
       => LET t == companies[ResolveOf[ds][i]].ticker
              s == [date    |-> today,
                    guesses |-> Append(loadState.guesses, t),
                    solved  |-> (t = companies[answer].ticker)]
          IN  /\ storage' = saveState(s)
              /\ loadStateFrom(storage', s.date) = s
              /\ loadState' = s]_vars

\* a session of two guesses, the second the answer, as loadState reads it
C9_Witness ==
  /\ result = "accepted"
  /\ Len(loadState.guesses) >= 2
  /\ loadState.solved
  /\ loadState.date = today

\* C10: a submit of non-blank input on an active session judges a company
\* whose ticker is the upper-cased input if there is one; otherwise a company
\* whose normalized name is the normalized input if there is one; otherwise
\* the only suggestion if the suggestions are exactly one; otherwise it
\* leaves by the no_match branch and the session is what it was.
C10_ResolutionOrder ==
  [][\A i \in Inputs :
       (answer # 0 /\ active /\ trim(i) # <<>> /\ submitGuess(i))
       => LET th     == TickerHits[ds][i]
              nh     == NameHits[ds][i]
              sug    == SuggestionsOf[ds][i]
              target == IF th # {} THEN th
                        ELSE IF nh # {} THEN nh
                        ELSE IF Len(sug) = 1 THEN {sug[1]}
                        ELSE {}
          IN  IF target = {}
              THEN /\ result' = "no_match"
                   /\ storage' = storage
                   /\ loadState' = loadState
              ELSE \E c \in target :
                     \/ /\ result' = "accepted"
                        /\ lastGuess(loadState') = companies[c].ticker
                        /\ rows' = <<renderGuessRow(companies[c], companies[answer])>>
                                     \o rows
                     \/ /\ result' = "duplicate_guess"
                        /\ \E k \in 1..Len(loadState.guesses) :
                              loadState.guesses[k] = companies[c].ticker]_vars

\* a company no input names by ticker or by name, accepted as the only
\* suggestion of an input; and an input of two suggestions exists
C10_Witness ==
  /\ result = "accepted"
  /\ \E c \in 1..Len(companies) :
       /\ lastGuess(loadState) = companies[c].ticker
       /\ \A i \in Inputs :
            ResolveOf[ds][i] = c =>
              (TickerHits[ds][i] = {} /\ NameHits[ds][i] = {}
                 /\ Len(SuggestionsOf[ds][i]) = 1)
       /\ \A other \in 1..Len(companies) :
            other # c => companies[other].ticker # companies[c].ticker
  /\ \E i \in Inputs : Len(SuggestionsOf[ds][i]) >= 2 /\ ResolveOf[ds][i] = 0

\* C11: the companies init builds have pairwise distinct tickers, and every
\* one has a non-empty name, whatever the records of the file.
C11_TickersDistinctNamesNonEmpty ==
  /\ \A i, j \in 1..Len(companies) :
       i # j => companies[i].ticker # companies[j].ticker
  /\ \A i \in 1..Len(companies) : companies[i].name # <<>>

\* a loaded page whose companies hold one ticker twice and an empty name
C11_Witness ==
  /\ pc = "ready"
  /\ \E i, j \in 1..Len(companies) :
       i # j /\ companies[i].ticker = companies[j].ticker
  /\ \E i \in 1..Len(companies) : companies[i].name = <<>>

\* the value of a company's numeric attribute
attrValue(c, attr) ==
  CASE attr = "founded"   -> c.founded
    [] attr = "price"     -> c.price
    [] attr = "marketCap" -> c.marketCap
    [] attr = "employees" -> c.employees
    [] attr = "pe"        -> c.pe

\* the number of finite upper bounds of defs that are at or below v
boundsAtOrBelow(v, defs) ==
  Cardinality({ i \in 1..(Len(defs) - 1) : v.k = "inf" \/ defs[i].upper.v <= v.v })

\* C12: a present value gets the index of the first bucket whose upper
\* bound is strictly greater: the number of bounds at or below it, so a value
\* on bucket i's bound gets i + 1 and every value at or above the last finite
\* bound gets the last index; the cell shows the label of that bucket.
C12_FirstBucketStrictlyAbove ==
  cmpRow # <<>> =>
    \A attr \in NumericAttrs :
      LET v    == attrValue(cmpGuess, attr)
          defs == bucketDefsOf(attr)
          n    == boundsAtOrBelow(v, defs)
      IN  v.k \in {"num", "inf"} =>
            /\ bucketUpper(v, defs).index = n
            /\ n \in 0..(Len(defs) - 1)
            /\ cmpRow[cellOf(attr)].text = defs[n + 1].label

\* a price on the bound of the second bucket, shown in the third bucket
C12_Witness ==
  /\ cmpRow # <<>>
  /\ cmpGuess.price = Num(50)
  /\ cmpRow[cellOf("price")].text = "$50-$100"
  /\ bucketUpper(cmpGuess.price, BUCKETS.price).index = 2

\* C13: for each numeric attribute the match verdict of a guess against an
\* answer is the verdict of the answer against the guess; when both values
\* are present and unequal the arrow is up one way exactly when it is down
\* the other way; and the arrow is none when the values are equal or when
\* either is absent (null or NaN).
C13_MatchSymmetricArrowAntisymmetric ==
  cmpRow # <<>> =>
    \A attr \in NumericAttrs :
      LET a    == attrValue(cmpGuess, attr)
          b    == attrValue(cmpAnswer, attr)
          back == renderGuessRow(cmpAnswer, cmpGuess)
          both == a.k \in {"num", "inf"} /\ b.k \in {"num", "inf"}
      IN  /\ cmpRow[cellOf(attr)].ok = back[cellOf(attr)].ok
          /\ (both /\ a # b) =>
                /\ arrowFor(a, b) \in {"up", "down"}
                /\ (arrowFor(a, b) = "up") <=> (arrowFor(b, a) = "down")
          /\ (~both \/ a = b) =>
                /\ arrowFor(a, b) = ""
                /\ cmpRow[cellOf(attr)].arrow = ""

\* a guess whose founding year is NaN, drawn with a down arrow beside N/A
C13_Witness ==
  /\ cmpRow # <<>>
  /\ cmpGuess.founded = NaN
  /\ cmpAnswer.founded.k = "num"
  /\ cmpRow[cellOf("founded")].text = "N/A"
  /\ cmpRow[cellOf("founded")].arrow = "down"

\* C14: the header of the share text of a finished session says whether it
\* was solved and gives its number of guesses out of MAX_GUESSES, solved or
\* not.
C14_HeaderCountsGuesses ==
  shareText # <<>> =>
    /\ shareText[1].solved = loadState.solved
    /\ shareText[1].outOf = MAX_GUESSES
    /\ shareText[1].count = Len(loadState.guesses)

\* the share text of a session that ran out of guesses: "Unsolved (0/8)"
C14_Witness ==
  /\ shareText # <<>>
  /\ ~loadState.solved
  /\ Len(loadState.guesses) = MAX_GUESSES
  /\ shareText[1].count = 0

\* C15: the share text of a finished session has one tile line per guess,
\* in the order of guesses (oldest first), each of 7 tiles: the tiles of that
\* guess against the answer.
C15_OneTileLinePerGuess ==
  shareText # <<>> =>
    LET lines   == shareText[1].lines
        guesses == loadState.guesses
    IN  /\ Len(lines) = Len(guesses)
        /\ \A k \in 1..Len(lines) :
             /\ Len(lines[k]) = 7
             /\ \E c \in 1..Len(companies) :
                  /\ companies[c].ticker = guesses[k]
                  /\ lines[k] = shareTiles(companies[c], companies[answer])

\* the share text of 8 guesses whose first and last lines differ
C15_Witness ==
  /\ shareText # <<>>
  /\ Len(loadState.guesses) = MAX_GUESSES
  /\ Len(shareText[1].lines) = MAX_GUESSES
  /\ shareText[1].lines[1] # shareText[1].lines[MAX_GUESSES]

\* the stored item is one loadState cannot take as today's record
unreadable == storage.kind # "json" \/ storage.date # today

\* C16: whatever is stored, loadState gives a session of today with a list
\* of guesses and a boolean solved flag: the fresh session when the item does
\* not parse, is no object or has another date, and the record with guesses
\* replaced by the empty list when its guesses are no array; and a guess
\* submitted then is judged from that session.
C16_LoadStateRecovers ==
  [][ /\ loadState.date = today
      /\ loadState.guesses # NotArray
      /\ loadState.solved \in BOOLEAN
      /\ unreadable => loadState = [date |-> today, guesses |-> <<>>, solved |-> FALSE]
      /\ (~unreadable /\ storage.guesses = NotArray)
           => loadState = [date |-> today, guesses |-> <<>>,
                           solved |-> toBoolean(storage.solved)]
      /\ \A i \in DayInputs :
           ( /\ answer # 0
             /\ unreadable \/ (storage.guesses = NotArray /\ ~loadState.solved)
             /\ trim(i) # <<>>
             /\ ResolveOf[ds][i] # 0
             /\ submitGuess(i) )
           => ( /\ result' = "accepted"
                /\ loadState'.date = today
                /\ loadState'.guesses = <<companies[ResolveOf[ds][i]].ticker>>
                /\ attempts' = 1 ) ]_vars

\* a page that drew a second row for a guess stored as the first of a fresh
\* session: the record of the first guess was damaged in between
C16_Witness ==
  /\ result = "accepted"
  /\ Len(rows) = 2
  /\ Len(loadState.guesses) = 1
  /\ attempts = 1

\* the page has no data: the fetch failed, or the file held no valid record
dataUnavailable ==
  \/ pc = "failed"
  \/ pc # "fetching" /\ Len(CompaniesOf[ds]) = 0

\* C17: when companies.json cannot be loaded or holds no valid record, the
\* page has no answer, and submitGuess with any input returns at once: no
\* guess is appended, nothing is written to the store, no row is drawn.
C17_NoDataNoGuess ==
  [][ dataUnavailable =>
        /\ answer = 0
        /\ \A i \in Inputs :
             submitGuess(i) =>
               /\ result' = "no_answer"
               /\ storage' = storage
               /\ loadState' = loadState
               /\ rows' = rows
               /\ attempts' = attempts ]_vars

\* a reload whose fetch failed, on a day with one stored guess: the submit
\* that followed left the session alone
C17_Witness ==
  /\ pc = "failed"
  /\ result = "no_answer"
  /\ Len(loadState.guesses) = 1
  /\ rows = <<>>

\* the companies of the suggestion run that start with the normalized query,
\* by name or by ticker, and those that contain it without starting with it
sugPrefix ==
  { c \in 1..Len(sugFile) :
      \/ startsWith(normalize(sugFile[c].name), normalize(sugQuery))
      \/ startsWith(toLowerCase(sugFile[c].ticker), normalize(sugQuery)) }

sugContains ==
  { c \in 1..Len(sugFile) :
      /\ c \notin sugPrefix
      /\ \/ includes(normalize(sugFile[c].name), normalize(sugQuery))
         \/ includes(toLowerCase(sugFile[c].ticker), normalize(sugQuery)) }

\* c comes before d in the full list: prefix hits first, then collection order
sugBefore(c, d) ==
  \/ c \in sugPrefix /\ d \in sugContains
  \/ (c \in sugPrefix <=> d \in sugPrefix) /\ c < d

\* C18: for a query that normalizes to a non-empty text, getSuggestions
\* lists the companies that start with it (normalized name, or lower-cased
\* ticker) in collection order, then those that only contain it in
\* collection order, cut after SUGGESTION_LIMIT entries, with no company
\* twice; for a query that normalizes to nothing, the list is empty.
C18_PrefixThenContainsCapped ==
  LET hits  == sugPrefix \cup sugContains
      shown == { sugItems[k] : k \in 1..Len(sugItems) }
  IN  IF normalize(sugQuery) = <<>> THEN sugItems = <<>>
      ELSE /\ shown \subseteq hits
           /\ Len(sugItems) = IF Cardinality(hits) < SUGGESTION_LIMIT
                              THEN Cardinality(hits) ELSE SUGGESTION_LIMIT
           /\ \A j, k \in 1..Len(sugItems) :
                j < k => sugBefore(sugItems[j], sugItems[k])
           /\ \A c \in hits \ shown : \A d \in shown : sugBefore(d, c)

\* fourteen companies hit by "a", seven by a prefix: the list shows the
\* seven and the first five of the others
C18_Witness ==
  /\ sugQuery = <<"a">>
  /\ Cardinality(sugPrefix) = 7
  /\ Cardinality(sugContains) = 7
  /\ Len(sugItems) = SUGGESTION_LIMIT
  /\ sugItems[7] \in sugPrefix
  /\ sugItems[8] \in sugContains

\* the ticker of the answer the scheduler assigns to a date
scheduledTicker(dateStr) == CompaniesOf[ds][pickDailyAnswerOf(ds, dateStr)].ticker

\* C19: a stored session that is solved has, as its last guess, the ticker
\* of the answer scheduled for the session's date, also when midnight in New
\* York passed between the load of the page and the guess.
C19_SolvedByScheduledAnswer ==
  (storage.kind = "json" /\ storage.solved = "true")
    => lastGuess(storage) = scheduledTicker(storage.date)

\* a guess accepted on a page loaded the day before, stored as solved under
\* the new date
C19_Witness ==
  /\ pc = "ready"
  /\ pageToday # today
  /\ result = "accepted"
  /\ storage.kind = "json"
  /\ storage.date = today
  /\ storage.solved = "true"
  /\ rows # <<>>

\* C20: in every state of a day's play, reloads included, the session's
\* guesses are at most MAX_GUESSES, no ticker is in them twice, and each is
\* the ticker of a company of the collection.
C20_GuessesBoundedDistinctKnown ==
  LET g == loadState.guesses
  IN  /\ Len(g) <= MAX_GUESSES
      /\ \A i, j \in 1..Len(g) : i # j => g[i] # g[j]
      /\ \A i \in 1..Len(g) :
           \E c \in 1..Len(CompaniesOf[ds]) : CompaniesOf[ds][c].ticker = g[i]

\* a page reloaded on a session that used all its guesses
C20_Witness ==
  /\ pc = "ready"
  /\ result = ""
  /\ Len(loadState.guesses) = MAX_GUESSES
  /\ Len(rows) = MAX_GUESSES
  /\ locked

\* C21: on a page that holds an answer, submitGuess leaves by the first of
\* its checks that applies, in the order: session solved or out of guesses
\* (invalid_state), trimmed input empty (empty_input), input resolves to no
\* company (no_match), ticker already guessed (duplicate_guess); so on a
\* solved or exhausted session every input, empty, unknown or repeated, is
\* answered invalid_state.
C21_ChecksInOrder ==
  [][\A i \in Inputs \cup LongInputs :
       (answer # 0 /\ submitGuess(i))
       => LET c == ResolveOf[ds][i]
          IN  result' =
                IF loadState.solved \/ Len(loadState.guesses) >= MAX_GUESSES
                  THEN "invalid_state"
                ELSE IF trim(i) = <<>> THEN "empty_input"
                ELSE IF c = 0 THEN "no_match"
                ELSE IF \E k \in 1..Len(loadState.guesses) :
                          loadState.guesses[k] = companies[c].ticker
                  THEN "duplicate_guess"
                ELSE "accepted"]_vars

\* a submit on a solved session of fewer than MAX_GUESSES guesses
C21_Witness ==
  /\ result = "invalid_state"
  /\ status = "Already solved."
  /\ loadState.solved
  /\ Len(loadState.guesses) < MAX_GUESSES
  /\ locked

\* the ticker of the page's answer is the k-th guess of the session
answerGuessedAt(k) == loadState.guesses[k] = companies[answer].ticker

\* C22: within one date, every step leaves the session as it was or appends
\* one ticker at its end; a solved session stays solved; and on a page that
\* holds an answer the session is solved exactly when the answer's ticker is
\* among the guesses, where it is the last one.
C22_GrowsAndStaysSolved ==
  [][ LET g == loadState.guesses
          h == loadState'.guesses
      IN  today' = today =>
          /\ h = g \/ (Len(h) = Len(g) + 1 /\ SubSeq(h, 1, Len(g)) = g)
          /\ (result' = "accepted" /\ storage' # storage) => Len(h) = Len(g) + 1
          /\ loadState.solved => loadState'.solved
          /\ answer # 0 =>
               /\ loadState.solved <=> \E k \in 1..Len(g) : answerGuessedAt(k)
               /\ \A k \in 1..Len(g) : answerGuessedAt(k) => k = Len(g)
          /\ answer' # 0 =>
               (loadState'.solved <=>
                  \E k \in 1..Len(h) : h[k] = CompaniesOf[ds][answer'].ticker) ]_vars

\* a session solved by its seventh guess, after six others
C22_Witness ==
  /\ result = "accepted"
  /\ loadState.solved
  /\ Len(loadState.guesses) = MAX_GUESSES - 1
  /\ answerGuessedAt(MAX_GUESSES - 1)
  /\ \A k \in 1..(MAX_GUESSES - 2) : ~answerGuessedAt(k)

=============================================================================
